---- MODULE Spec2Model ----
(***************************************************************************)
(* A model of the contract-first command/service library: tagged errors,   *)
(* defineCommand with its two attachment methods (implementation and       *)
(* unsafeImplementation), withDependencies currying, and defineService.    *)
(*                                                                         *)
(* JavaScript values are records with a field t naming the sort of value.  *)
(* An implementation function is caller code: the model draws what it      *)
(* returns or throws from FnOutcomes when its promise settles.             *)
(***************************************************************************)
EXTENDS Integers, Sequences, FiniteSets, TLC

VARIABLES
    calls,            \* run invocations: in flight (pc = "awaiting") or settled
    curried,          \* the closures withDependencies has returned
    serviceContract,  \* the object defineService returned, once it was called
    factories,        \* the factories serviceContract.implementation has returned
    services,         \* the Service objects the factories have returned
    last,             \* the latest synchronous call of the library and its result
    fromFactories,    \* the factories serviceFrom and serviceFromSimple have returned
    fromServices,     \* the objects those factories have returned
    kinds,            \* the error classes defineError has returned
    instances,        \* the error values constructed from those classes
    bundles,          \* the dependency bundles of the callers, by reference
    command,          \* the object defineCommand returned, once it was called
    attached          \* the objects its attachment methods have returned

svcVars == <<serviceContract, factories, services, last>>
fromVars == <<fromFactories, fromServices>>
errVars == <<kinds, instances>>
objVars == <<bundles, command, attached>>
vars == <<calls, curried, serviceContract, factories, services, last,
          fromFactories, fromServices, kinds, instances,
          bundles, command, attached>>

-----------------------------------------------------------------------------
(* Bounds of the model *)

MaxCalls == 2
MaxCurried == 2
MaxFactories == 1
MaxServices == 2
MaxServiceCalls == 1
MaxFromFactories == 2
MaxKinds == 2
MaxInstances == 2
MaxAttached == 2

-----------------------------------------------------------------------------
(* JavaScript values *)

Undefined == [t |-> "undefined"]
Null == [t |-> "null"]

\* neverthrow's two-variant container
ok(v) == [t |-> "ok", value |-> v]
err(e) == [t |-> "err", error |-> e]

isOk(r) == r.t = "ok"
isErr(r) == r.t = "err"

\* Property names every object inherits from Object.prototype
ObjectPrototypeKeys == {"toString", "constructor", "valueOf", "hasOwnProperty"}

\* The error kinds of the tests, each a class returned by defineError(tag, ...)
ErrorKinds == {"UserNotFoundError", "ValidationError"}

KindTag(kind) ==
    CASE kind = "UserNotFoundError" -> "USER_NOT_FOUND"
      [] kind = "ValidationError" -> "VALIDATION_ERROR"

\* new Kind(data): an instance carries the tag of its kind in _tag
NewError(kind, data) ==
    [t |-> "TaggedError", kind |-> kind, _tag |-> KindTag(kind), data |-> data]

\* a plain object that merely carries a _tag field, instance of no error kind
TagCarrier == [t |-> "object", _tag |-> "USER_NOT_FOUND"]
PlainError == [t |-> "Error", message |-> "Unexpected system error"]
ThrownString == [t |-> "string", s |-> "boom"]

\* an object literal { key: value, ... }
ObjectLiteral(entries) == [t |-> "map", entries |-> entries]

\* a plain data object { key: "value", ... }
Data(fields) == [t |-> "data", fields |-> fields]

\* JavaScript's truthiness, typeof and own property names of a value
Truthy(v) ==
    CASE v.t \in {"undefined", "null"} -> FALSE
      [] v.t = "string" -> v.s # ""
      [] OTHER -> TRUE

TypeOf(v) ==
    CASE v.t = "undefined" -> "undefined"
      [] v.t = "string" -> "string"
      [] OTHER -> "object"

OwnKeys(v) ==
    CASE v.t = "TaggedError" -> {"_tag", "data", "cause", "name", "message"}
      [] v.t = "object" -> {"_tag"}
      [] v.t = "Error" -> {"name", "message"}
      [] v.t = "ok" -> {"value"}
      [] v.t = "err" -> {"error"}
      [] v.t = "map" -> DOMAIN v.entries
      [] v.t = "data" -> DOMAIN v.fields
      [] OTHER -> {}

\* key in obj: an own property or one inherited from Object.prototype
In(key, obj) == key \in OwnKeys(obj) \/ key \in ObjectPrototypeKeys

-----------------------------------------------------------------------------
(* Error kinds made by defineError, and matchError *)

Str(s) == [t |-> "string", s |-> s]

\* a || b
Or(a, b) == IF Truthy(a) THEN a ELSE b

\* defineError(tag, defaultMessage): a new class; nothing is checked
defineError(tag, defaultMessage) == [tag |-> tag, defaultMessage |-> defaultMessage]

\* new Class(data, message, cause), Class the id-th class defineError returned:
\* super(message || defaultMessage || `Error: ${tag}`, cause)
Construct(id, class, data, message, cause) ==
    [t |-> "TaggedError", kind |-> id, _tag |-> class.tag, data |-> data,
     message |-> Or(message, Or(class.defaultMessage, Str("Error: " \o class.tag))),
     cause |-> cause]

Function(name) == [t |-> "function", name |-> name]

\* obj[key]: the own property, else the one Object.prototype has, else undefined
Get(obj, key) ==
    IF key \in OwnKeys(obj) THEN obj.entries[key]
    ELSE IF key \in ObjectPrototypeKeys THEN Function("Object.prototype." \o key)
    ELSE Undefined

\* a function of Object.prototype called as handler(error), this undefined
InheritedCall(name, error) ==
    CASE name = "Object.prototype.toString" ->
            [how |-> "return", val |-> Str("[object Undefined]")]
      [] name = "Object.prototype.constructor" -> [how |-> "return", val |-> error]
      [] OTHER -> [how |-> "throw", val |-> [t |-> "Error", message |-> "TypeError"]]

\* handler(error): out is what a handler of the caller does
Call(handler, error, out) ==
    IF handler.name \in {"Object.prototype." \o k : k \in ObjectPrototypeKeys}
    THEN InheritedCall(handler.name, error)
    ELSE out

\* matchError calling the handler and dropping what it returned
matchErrorDropsResult(error, handlers, out) ==
    LET handler == Get(handlers, error._tag)
    IN IF ~Truthy(handler)
       THEN [invoked |-> <<>>,
             result |-> [how |-> "throw",
                         val |-> [t |-> "Error",
                                  message |-> "No handler for error tag: " \o error._tag]]]
       ELSE [invoked |-> <<[handler |-> handler, arg |-> error]>>,
             result |-> IF Call(handler, error, out).how = "return"
                        THEN [how |-> "return", val |-> Undefined]
                        ELSE Call(handler, error, out)]

\* matchError(error, handlers): the handlers invoked, in order, and the result
matchError(error, handlers, out) ==
    LET handler == Get(handlers, error._tag)
    IN IF ~Truthy(handler)
       THEN [invoked |-> <<>>,
             result |-> [how |-> "throw",
                         val |-> [t |-> "Error",
                                  message |-> "No handler for error tag: " \o error._tag]]]
       ELSE [invoked |-> <<[handler |-> handler, arg |-> error]>>,
             result |-> Call(handler, error, out)]

-----------------------------------------------------------------------------
(* Commands *)

Commands == {"getUserCommand", "createUserCommand"}

\* the command whose run and withDependencies are called directly
CommandsUnderTest == {"getUserCommand"}

\* the errors list each command of the tests declares
CommandErrors(cmd) ==
    CASE cmd = "getUserCommand" -> {"UserNotFoundError"}
      [] cmd = "createUserCommand" -> {"ValidationError"}

CommandSchemas(cmd) ==
    [input |-> <<cmd, "input">>, output |-> <<cmd, "output">>]

\* the keys the z.object(...) schemas of the tests require
SchemaKeys(schema) ==
    CASE schema = <<"getUserCommand", "input">> -> {"userId"}
      [] schema = <<"createUserCommand", "input">> -> {"name", "email"}
      [] OTHER -> {"id", "name", "email"}

\* z.string() accepts any string; z.string().email() of createUser's input
\* accepts addresses only
FieldOk(schema, key, value) ==
    (schema = <<"createUserCommand", "input">> /\ key = "email")
        => value \in {"john@example.com"}

ZodError(schema) == [t |-> "ZodError", schema |-> schema]

\* schema.parse(x): a copy of x holding the schema's keys, unknown keys
\* stripped, or a thrown ZodError
Parse(schema, x) ==
    IF /\ x.t = "data"
       /\ SchemaKeys(schema) \subseteq DOMAIN x.fields
       /\ \A k \in SchemaKeys(schema) : FieldOk(schema, k, x.fields[k])
    THEN [how |-> "return", val |-> Data([k \in SchemaKeys(schema) |-> x.fields[k]])]
    ELSE [how |-> "throw", val |-> ZodError(schema)]

\* the members of the object literal defineCommand returns
ContractMembers ==
    {"schemas", "types", "errors", "implementation", "unsafeImplementation"}

NoCommand == [defined |-> FALSE]

\* defineCommand(params): the contract object
defineCommand(cmd) ==
    [command |-> cmd, schemas |-> CommandSchemas(cmd), errors |-> CommandErrors(cmd)]

\* The promise of a function call: fulfilled with a value or rejected with one
Resolved(v) == [state |-> "resolved", val |-> v]
Rejected(v) == [state |-> "rejected", val |-> v]
Pending == [state |-> "pending"]

\* What an implementation function did: returned a value or threw one
Return(v) == [how |-> "return", val |-> v]
Throw(v) == [how |-> "throw", val |-> v]
NoOutcome == [how |-> "none"]

\* the catch clause's test: error && typeof error === 'object' && '_tag' in error
IsTagged(error) ==
    Truthy(error) /\ TypeOf(error) = "object" /\ In("_tag", error)

\* wrappedImpl returning the raw result, the ok() wrapping forgotten
wrappedImplNoOk(out) ==
    IF out.how = "return"
    THEN Resolved(out.val)
    ELSE IF IsTagged(out.val)
         THEN Resolved(err(out.val))
         ELSE Rejected(out.val)

\* wrappedImpl without its catch clause
wrappedImplNoCatch(out) ==
    IF out.how = "return" THEN Resolved(ok(out.val)) ELSE Rejected(out.val)

\* wrappedImpl whose catch clause wraps whatever was thrown
wrappedImplCatchAll(out) ==
    IF out.how = "return" THEN Resolved(ok(out.val)) ELSE Resolved(err(out.val))

\* wrappedImpl whose catch clause ends without re-throwing
wrappedImplSwallows(out) ==
    IF out.how = "return"
    THEN Resolved(ok(out.val))
    ELSE IF IsTagged(out.val)
         THEN Resolved(err(out.val))
         ELSE Resolved(Undefined)

\* wrappedImpl: await impl(context) inside try/catch
wrappedImpl(out) ==
    IF out.how = "return"
    THEN Resolved(ok(out.val))
    ELSE IF IsTagged(out.val)
         THEN Resolved(err(out.val))
         ELSE Rejected(out.val)

\* impl behind the catch clause of wrappedImpl
implCatchesTagged(out) ==
    IF out.how = "return"
    THEN Resolved(out.val)
    ELSE IF IsTagged(out.val)
         THEN Resolved(err(out.val))
         ELSE Rejected(out.val)

\* impl called directly: its own promise
impl(out) ==
    IF out.how = "return" THEN Resolved(out.val) ELSE Rejected(out.val)

\* implementation attaching impl as it is: run and the closure call impl unwrapped
implementationUnwrapped(contract) ==
    [command |-> contract.command, schemas |-> contract.schemas,
     errors |-> contract.errors, path |-> "implementation",
     run |-> "impl", withDependencies |-> "impl",
     validateInput |-> contract.schemas.input,
     validateOutput |-> contract.schemas.output]

\* contract.implementation(impl): run and the withDependencies closure both
\* call wrappedImpl; validateInput and validateOutput parse with the schemas
\* of params
implementation(contract) ==
    [command |-> contract.command, schemas |-> contract.schemas,
     errors |-> contract.errors, path |-> "implementation",
     run |-> "wrappedImpl", withDependencies |-> "wrappedImpl",
     validateInput |-> contract.schemas.input,
     validateOutput |-> contract.schemas.output]

\* unsafeImplementation wired like implementation: run wraps what impl returns
unsafeImplementationWrapped(contract) ==
    [command |-> contract.command, schemas |-> contract.schemas,
     errors |-> contract.errors, path |-> "unsafeImplementation",
     run |-> "wrappedImpl", withDependencies |-> "wrappedImpl",
     validateInput |-> contract.schemas.input,
     validateOutput |-> contract.schemas.output]

\* contract.unsafeImplementation(impl): run is impl, and the closure calls impl
unsafeImplementation(contract) ==
    [command |-> contract.command, schemas |-> contract.schemas,
     errors |-> contract.errors, path |-> "unsafeImplementation",
     run |-> "impl", withDependencies |-> "impl",
     validateInput |-> contract.schemas.input,
     validateOutput |-> contract.schemas.output]

ImplementedCommands ==
    {implementation(defineCommand(c)) : c \in CommandsUnderTest}
        \cup {unsafeImplementation(defineCommand(c)) : c \in CommandsUnderTest}

\* the members of the object an attachment method returns: those of the
\* contract, copied by ...contract, and the four it adds
ImplementedMembers(contract) ==
    contract.members \cup {"run", "withDependencies", "validateInput", "validateOutput"}

\* the members of the record a factory builds for a command
RecordMembers ==
    {"schemas", "types", "errors", "validateInput", "validateOutput", "run"}

\* the object contract[method](f) returns. impl is the function its run
\* calls, given the argument of the call; through is the object the method
\* was read from.
Attach(contract, method, f, through) ==
    [ic |-> IF method = "implementation"
            THEN implementation(contract.contract)
            ELSE unsafeImplementation(contract.contract),
     given |-> f, impl |-> f,
     members |-> ImplementedMembers(contract),
     through |-> through]

\* an attachment method keeping impl in one variable of defineCommand's scope,
\* which the run of every object it returned reads
AfterAttachSharedImpl(objects, contract, method, f, through) ==
    {[a EXCEPT !.impl = f] : a \in objects}
        \cup {Attach(contract, method, f, through)}

\* the implemented objects in existence once contract[method](f) has returned:
\* impl is a parameter of the call, implementedContract a fresh object
AfterAttach(objects, contract, method, f, through) ==
    objects \cup {Attach(contract, method, f, through)}

\* the settled promise of function fn, given what the implementation did
Settle(fn, out) ==
    IF fn = "wrappedImpl" THEN wrappedImpl(out) ELSE impl(out)

\* withDependencies whose closure calls impl, bypassing the command's run
withDependenciesCallsImpl(ic, deps) ==
    [ic |-> ic, given |-> deps, deps |-> deps, fn |-> "impl"]

\* withDependencies(deps): a closure over deps that calls the command's function.
\* given records the argument of the call; deps is the variable the closure reads.
withDependencies(ic, deps) ==
    [ic |-> ic, given |-> deps, deps |-> deps, fn |-> ic.withDependencies]

\* withDependencies keeping deps in one slot per implemented command, which
\* every closure of that command reads
AfterWithDependenciesSharedSlot(closures, ic, deps) ==
    {[k EXCEPT !.deps = IF k.ic = ic THEN deps ELSE k.deps] : k \in closures}
        \cup {withDependencies(ic, deps)}

\* the closures in existence once withDependencies(deps) has returned
AfterWithDependencies(closures, ic, deps) ==
    closures \cup {withDependencies(ic, deps)}

\* (input, options) => fn({ input, deps, options })
CurriedContext(closure, input, options) ==
    [input |-> input, deps |-> closure.deps, options |-> options]

-----------------------------------------------------------------------------
(* Service contracts *)

NoServiceContract == [defined |-> FALSE]
NoCall == [op |-> "none"]

\* the command each name of the service contracts stands for
ContractOf(name) ==
    CASE name = "getUser" -> defineCommand("getUserCommand")
      [] name = "createUser" -> defineCommand("createUserCommand")
      [] name = "toString" -> defineCommand("createUserCommand")

\* defineService(contracts): names holds the keys of contracts in insertion
\* order, the order for ... in visits them
defineService(names) ==
    [defined |-> TRUE, names |-> names,
     contracts |-> ObjectLiteral([n \in {names[i] : i \in DOMAIN names} |->
                                     ContractOf(n)])]

MissingImplementation(contractName) ==
    [t |-> "Error",
     message |-> "Missing implementation for contract: " \o contractName]

\* for (const contractName in contracts)
\*     if (!(contractName in implementations)) throw ...
\* the positions of the names the loop would throw for
Unimplemented(names, implementations) ==
    {i \in DOMAIN names : ~In(names[i], implementations)}

FirstOf(indices) == CHOOSE i \in indices : \A j \in indices : i <= j

\* the error the completeness loop throws, or Undefined when it completes
CompletenessCheck(names, implementations) ==
    IF Unimplemented(names, implementations) = {}
    THEN Undefined
    ELSE MissingImplementation(names[FirstOf(Unimplemented(names, implementations))])

\* the factory binding each command to an object of its own holding the
\* dependencies that command declares
ServiceRecordPicksDeps(ic, deps) ==
    [schemas |-> ic.schemas, errors |-> ic.errors,
     validateInput |-> ic.validateInput, validateOutput |-> ic.validateOutput,
     run |-> withDependencies(ic, "subset of " \o deps \o " for " \o ic.command)]

\* the TypeError of implementation.withDependencies(deps) when implementation
\* is undefined or null, or holds no function under withDependencies
NotCallable(v) ==
    [t |-> "Error",
     message |-> IF v.t \in {"undefined", "null"}
                 THEN "Cannot read properties of " \o v.t
                          \o " (reading 'withDependencies')"
                 ELSE "implementation.withDependencies is not a function"]

\* the values of implementations the factory's loop cannot curry
Uncurriable(implementations) ==
    {n \in DOMAIN implementations.entries :
        "withDependencies" \notin DOMAIN implementations.entries[n]}

\* what the factory's loop throws, or Undefined when it completes
FactoryCheck(implementations) ==
    IF Uncurriable(implementations) = {}
    THEN Undefined
    ELSE NotCallable(implementations.entries[
             CHOOSE n \in Uncurriable(implementations) : TRUE])

\* the record the factory builds for one entry of implementations
ServiceRecord(ic, deps) ==
    [schemas |-> ic.schemas, errors |-> ic.errors,
     validateInput |-> ic.validateInput, validateOutput |-> ic.validateOutput,
     run |-> withDependencies(ic, deps)]

\* the factory looping over the declared contracts instead of the entries of
\* implementations
BuildServiceDeclaredOnly(implementations, deps) ==
    [t |-> "service", deps |-> deps, implementations |-> implementations,
     entries |-> [name \in DOMAIN implementations.entries
                             \cap DOMAIN serviceContract.contracts.entries |->
                     ServiceRecord(implementations.entries[name], deps)]]

\* the factory's loop over Object.entries(implementations)
BuildService(implementations, deps) ==
    [t |-> "service", deps |-> deps, implementations |-> implementations,
     entries |-> [name \in DOMAIN implementations.entries |->
                     ServiceRecord(implementations.entries[name], deps)]]

\* validateInput calling safeParse: a result object is returned, nothing thrown
validateInputSafeParse(target, x) ==
    [how |-> "return",
     val |-> [t |-> "safeParse", result |-> Parse(target.validateInput, x)]]

\* validateInput(x) of an implemented command or of a service record, which
\* holds the command's own function: params.input.parse(x)
validateInput(target, x) == Parse(target.validateInput, x)

\* validateOutput(x): params.output.parse(x)
validateOutput(target, x) == Parse(target.validateOutput, x)

\* serviceFrom's record with the declared errors left out
serviceFromRecordNoErrors(contract, deps) ==
    [schemas |-> contract.schemas, errors |-> {},
     validateInput |-> contract.validateInput,
     validateOutput |-> contract.validateOutput,
     run |-> withDependencies(contract, deps)]

\* the record serviceFrom's factory builds for one entry of commands
serviceFromRecord(contract, deps) ==
    [schemas |-> contract.schemas, errors |-> contract.errors,
     validateInput |-> contract.validateInput,
     validateOutput |-> contract.validateOutput,
     run |-> withDependencies(contract, deps)]

\* serviceFrom(commands) and serviceFromSimple(commands): closures over commands
serviceFrom(commands) == [kind |-> "serviceFrom", commands |-> commands]
serviceFromSimple(commands) == [kind |-> "serviceFromSimple", commands |-> commands]

\* serviceFrom(commands)(deps)
serviceFromFactory(commands, deps) ==
    [t |-> "service", kind |-> "serviceFrom", deps |-> deps, commands |-> commands,
     entries |-> [name \in DOMAIN commands.entries |->
                     serviceFromRecord(commands.entries[name], deps)]]

\* serviceFromSimple's factory binding every command to the bundle of the
\* first call
serviceFromSimpleFactoryFirstDeps(commands, deps) ==
    [t |-> "service", kind |-> "serviceFromSimple", deps |-> deps,
     commands |-> commands,
     entries |-> [name \in DOMAIN commands.entries |->
                     withDependencies(commands.entries[name], "depsA")]]

\* serviceFromSimple(commands)(deps): the closures themselves, no records
serviceFromSimpleFactory(commands, deps) ==
    [t |-> "service", kind |-> "serviceFromSimple", deps |-> deps,
     commands |-> commands,
     entries |-> [name \in DOMAIN commands.entries |->
                     withDependencies(commands.entries[name], deps)]]

\* the factory filling one service object created outside the factory: every
\* call refills the object the earlier calls returned
AfterFactoryHoisted(svcs, implementations, deps) ==
    {[BuildService(implementations, deps) EXCEPT !.deps = s.deps] :
        s \in {x \in svcs : x.implementations = implementations}}
        \cup {BuildService(implementations, deps)}
        \cup {x \in svcs : x.implementations # implementations}

\* the Service objects in existence once factory(deps) has returned: the
\* factory fills a fresh object on each call
AfterFactory(svcs, implementations, deps) ==
    svcs \cup {BuildService(implementations, deps)}

-----------------------------------------------------------------------------
(* Inputs of the model *)

\* the service contracts defineService is called with
ServiceDefinitions == {<<"getUser", "createUser">>, <<"getUser", "toString">>}

\* the service contract of the tests
TestedDefinitions == {<<"getUser", "createUser">>}

Names == {"getUser", "createUser", "toString"}

\* the implemented commands a caller may supply under each name
Implementers(name) ==
    CASE name = "getUser" ->
            {implementation(ContractOf(name)), unsafeImplementation(ContractOf(name))}
      [] name = "createUser" -> {unsafeImplementation(ContractOf(name))}
      [] name = "toString" -> {implementation(ContractOf(name))}

\* the maps serviceContract.implementation is called with
ImplementationMaps ==
    UNION {{ObjectLiteral(f) : f \in {g \in [keys -> UNION {Implementers(n) : n \in keys}] :
                                        \A n \in keys : g[n] \in Implementers(n)}}
           : keys \in SUBSET Names}

\* what a caller can put under a name past the type checker (as any): an
\* implemented command, undefined, or an object that is none
LooseValues(name) == Implementers(name) \cup {Undefined, ObjectLiteral(<<>>)}

LooseMaps ==
    UNION {{ObjectLiteral(f) : f \in {g \in [keys -> UNION {LooseValues(n) : n \in keys}] :
                                        \A n \in keys : g[n] \in LooseValues(n)}}
           : keys \in SUBSET {"getUser", "createUser"}}

\* the maps serviceFrom and serviceFromSimple are called with
CommandMaps ==
    {m \in ImplementationMaps :
        DOMAIN m.entries # {} /\ "toString" \notin DOMAIN m.entries}

\* the values handed to validateInput and validateOutput
Unknowns ==
    {Data([userId |-> "42"]), Data([userId |-> "42", extra |-> "x"]),
     Data([invalid |-> "data"]),
     Data([id |-> "1", name |-> "Test", email |-> "test@example.com"]),
     Data([id |-> "1", name |-> "Test"]), Null}

\* the arguments of defineError and of the constructors of its classes
Tags == {"USER_NOT_FOUND", "toString"}
DefaultMessages == {Undefined, Str("User not found")}
Messages == {Undefined, Str(""), Str("User 42 not found")}
Causes == {PlainError}

\* the handler maps matchError is called with: one handler per tag handled
HandlerMaps ==
    {ObjectLiteral([tag \in handled |-> Function("on " \o tag)]) :
        handled \in SUBSET Tags}

\* what a handler of the caller does with the error
HandlerOutcomes ==
    {[how |-> "return", val |-> Str("handled")], [how |-> "return", val |-> Undefined],
     [how |-> "throw", val |-> PlainError]}

\* { userId: '123' } and { invalid: 'data' }
Inputs == {Data([userId |-> "123"]), Data([invalid |-> "data"])}
Bundles == {"depsA", "depsB"}
Options == {Undefined, [t |-> "plain", v |-> "opts"]}
Contexts == [input : Inputs, deps : Bundles, options : Options]

\* the implementation functions handed to the attachment methods
Fns == {"getUserImpl", "otherImpl"}
Methods == {"implementation", "unsafeImplementation"}

\* the dependencies of the tests, one object per bundle
BundleOf(b) == [userRepo |-> "userRepo of " \o b, logger |-> "logger of " \o b]

MockUser == [t |-> "plain", v |-> "mockUser"]
ErrorData == {"42"}

TaggedErrors == {NewError(k, d) : k \in ErrorKinds, d \in ErrorData}

\* instances of the kinds a command declares
DeclaredErrors(ic) == {e \in TaggedErrors : e.kind \in ic.errors}

\* what the implementation's return type admits: a raw output on the
\* auto-wrapped path (any value, a container included), a Result of the output
\* and the declared errors on the explicit path
ReturnValues(ic) ==
    IF ic.path = "implementation"
    THEN {MockUser, ok(MockUser)} \cup {err(e) : e \in DeclaredErrors(ic)}
    ELSE {ok(MockUser)} \cup {err(e) : e \in DeclaredErrors(ic)}

\* anything can be thrown
Throwables ==
    TaggedErrors \cup {TagCarrier, PlainError, ThrownString, Null, Undefined}

FnOutcomes(ic) ==
    {Return(v) : v \in ReturnValues(ic)} \cup {Throw(v) : v \in Throwables}

-----------------------------------------------------------------------------
(* Operations *)

Init ==
    /\ calls = {}
    /\ curried = {}
    /\ serviceContract = NoServiceContract
    /\ factories = {}
    /\ services = {}
    /\ last = NoCall
    /\ fromFactories = {}
    /\ fromServices = {}
    /\ kinds = <<>>
    /\ instances = {}
    /\ bundles = [b \in Bundles |-> BundleOf(b)]
    /\ command = NoCommand
    /\ attached = {}

DirectRun == [direct |-> TRUE]

\* a call that has invoked the implementation with ctx and awaits it
NewCall(ic, via, fn, args, ctx) ==
    [ic |-> ic, via |-> via, fn |-> fn, args |-> args, ctx |-> ctx,
     pc |-> "awaiting", out |-> NoOutcome, outcome |-> Pending]

\* implementedCommand.run(context)
Run(ic, ctx) ==
    /\ Cardinality(calls) < MaxCalls
    /\ calls' = calls \cup {NewCall(ic, DirectRun, ic.run, ctx, ctx)}
    /\ UNCHANGED <<curried, svcVars, fromVars, errVars, objVars>>

\* withDependencies calling the command's function once when it binds
WithDependenciesEager(ic, deps) ==
    /\ Cardinality(curried) < MaxCurried
    /\ curried' = AfterWithDependencies(curried, ic, deps)
    /\ calls' = calls \cup
         {NewCall(ic, withDependencies(ic, deps), ic.withDependencies,
                  [input |-> Undefined, options |-> Undefined],
                  CurriedContext(withDependencies(ic, deps), Undefined, Undefined))}
    /\ UNCHANGED <<svcVars, fromVars, errVars, objVars>>

\* implementedCommand.withDependencies(deps)
WithDependencies(ic, deps) ==
    /\ Cardinality(curried) < MaxCurried
    /\ curried' = AfterWithDependencies(curried, ic, deps)
    /\ UNCHANGED <<calls, svcVars, fromVars, errVars, objVars>>

\* closure(input, options)
CurriedCall(closure, input, options) ==
    /\ Cardinality(calls) < MaxCalls
    /\ calls' = calls \cup
         {NewCall(closure.ic, closure, closure.fn,
                  [input |-> input, options |-> options],
                  CurriedContext(closure, input, options))}
    /\ UNCHANGED <<curried, svcVars, fromVars, errVars, objVars>>

\* run handing every caller of wrappedImpl one result object, overwritten each
\* time an implementation settles
AfterSettleSharedResult(inFlight, c, out) ==
    {IF k.pc = "settled" /\ k.fn = "wrappedImpl"
     THEN [k EXCEPT !.outcome = Settle(k.fn, out)]
     ELSE k : k \in inFlight \ {c}}
        \cup {[c EXCEPT !.pc = "settled", !.out = out,
                         !.outcome = Settle(c.fn, out)]}

\* the calls once the implementation of c has settled with out: result and
\* error are locals of c's own invocation of the function
AfterSettle(inFlight, c, out) ==
    (inFlight \ {c}) \cup
        {[c EXCEPT !.pc = "settled", !.out = out, !.outcome = Settle(c.fn, out)]}

\* the implementation's promise settles and the awaiting function continues
ImplSettles(c, out) ==
    /\ c.pc = "awaiting"
    /\ calls' = AfterSettle(calls, c, out)
    /\ UNCHANGED <<curried, svcVars, fromVars, errVars, objVars>>

\* the implementation's promise settles. When run is impl itself that promise
\* is run's promise; wrappedImpl is suspended at its await and its
\* continuation is queued.
ImplPromiseSettles(c, out) ==
    /\ c.pc = "awaiting"
    /\ calls' = IF c.fn = "impl"
                THEN AfterSettle(calls, c, out)
                ELSE (calls \ {c}) \cup {[c EXCEPT !.pc = "resuming", !.out = out]}
    /\ UNCHANGED <<curried, svcVars, fromVars, errVars, objVars>>

\* wrappedImpl continues after its await: return ok(result), or the catch clause
Resume(c) ==
    /\ c \in calls
    /\ c.pc = "resuming"
    /\ calls' = AfterSettle(calls, c, c.out)
    /\ UNCHANGED <<curried, svcVars, fromVars, errVars, objVars>>

\* defineCommand(params)
DefineCommand(cmd) ==
    /\ ~command.defined
    /\ command' = [defined |-> TRUE, contract |-> defineCommand(cmd),
                   members |-> ContractMembers]
    /\ UNCHANGED <<calls, curried, svcVars, fromVars, errVars, bundles, attached>>

\* command.implementation(f), command.unsafeImplementation(f)
Implement(method, f) ==
    /\ command.defined
    /\ method \in command.members
    /\ Cardinality(attached) < MaxAttached
    /\ attached' = AfterAttach(attached, command, method, f, "command")
    /\ UNCHANGED <<calls, curried, svcVars, fromVars, errVars, bundles, command>>

\* implemented[method](f): the member ...contract copied is the contract's own
\* closure, which builds from the contract again
ImplementAgain(a, method, f) ==
    /\ a \in attached
    /\ method \in a.members
    /\ Cardinality(attached) < MaxAttached
    /\ attached' = AfterAttach(attached, command, method, f, "implemented")
    /\ UNCHANGED <<calls, curried, svcVars, fromVars, errVars, bundles, command>>

\* implemented.run(context), implemented an object of attached
RunAttached(a, ctx) ==
    /\ a \in attached
    /\ Cardinality(calls) < MaxCalls
    /\ calls' = calls \cup
         {NewCall(a.ic, [attached |-> a, invoked |-> a.impl], a.ic.run, ctx, ctx)}
    /\ UNCHANGED <<curried, svcVars, fromVars, errVars, objVars>>

\* defineService(contracts)
DefineService(names) ==
    /\ ~serviceContract.defined
    /\ serviceContract' = defineService(names)
    /\ UNCHANGED <<calls, curried, factories, services, last, fromVars, errVars, objVars>>

\* implementation keeping the map on the service contract before the check,
\* where the factories returned earlier read it
ServiceImplementationStoresFirst(implementations) ==
    /\ serviceContract.defined
    /\ LET thrown == CompletenessCheck(serviceContract.names, implementations)
       IN IF thrown # Undefined
          THEN /\ last' = [op |-> "implementation", implementations |-> implementations,
                           threw |-> TRUE, error |-> thrown]
               /\ factories' = {implementations : f \in factories}
          ELSE /\ Cardinality(factories \cup {implementations}) <= MaxFactories
               /\ factories' = factories \cup {implementations}
               /\ last' = [op |-> "implementation", implementations |-> implementations,
                           threw |-> FALSE, error |-> Undefined]
    /\ UNCHANGED <<calls, curried, serviceContract, services, fromVars, errVars, objVars>>

\* serviceContract.implementation(implementations)
ServiceImplementation(implementations) ==
    /\ serviceContract.defined
    /\ LET thrown == CompletenessCheck(serviceContract.names, implementations)
       IN IF thrown # Undefined
          THEN /\ last' = [op |-> "implementation", implementations |-> implementations,
                           threw |-> TRUE, error |-> thrown]
               /\ UNCHANGED factories
          ELSE /\ Cardinality(factories \cup {implementations}) <= MaxFactories
               /\ factories' = factories \cup {implementations}
               /\ last' = [op |-> "implementation", implementations |-> implementations,
                           threw |-> FALSE, error |-> Undefined]
    /\ UNCHANGED <<calls, curried, serviceContract, services, fromVars, errVars, objVars>>

\* factory(deps), factory a closure over implementations
Factory(implementations, deps) ==
    /\ implementations \in factories
    /\ LET thrown == FactoryCheck(implementations)
       IN IF thrown # Undefined
          THEN /\ last' = [op |-> "factory", implementations |-> implementations,
                           threw |-> TRUE, error |-> thrown]
               /\ UNCHANGED services
          ELSE /\ Cardinality(services \cup {BuildService(implementations, deps)})
                     <= MaxServices
               /\ services' = AfterFactory(services, implementations, deps)
               /\ last' = [op |-> "factory", implementations |-> implementations,
                           threw |-> FALSE, error |-> Undefined]
    /\ UNCHANGED <<calls, curried, serviceContract, factories, fromVars, errVars, objVars>>

\* service[name].run(input, options)
ServiceRun(service, name, input, options) ==
    /\ Cardinality(calls) < MaxServiceCalls
    /\ LET closure == service.entries[name].run
       IN calls' = calls \cup
            {NewCall(closure.ic, [service |-> service, name |-> name], closure.fn,
                     [input |-> input, options |-> options],
                     CurriedContext(closure, input, options))}
    /\ UNCHANGED <<curried, svcVars, fromVars, errVars, objVars>>

\* the caller has awaited a settled call and dropped its result
Forget(c) ==
    /\ c.pc = "settled"
    /\ calls' = calls \ {c}
    /\ UNCHANGED <<curried, svcVars, fromVars, errVars, objVars>>

\* serviceFrom(commands)
ServiceFrom(commands) ==
    /\ Cardinality(fromFactories \cup {serviceFrom(commands)}) <= MaxFromFactories
    /\ fromFactories' = fromFactories \cup {serviceFrom(commands)}
    /\ UNCHANGED <<calls, curried, svcVars, fromServices, errVars, objVars>>

\* serviceFromSimple(commands)
ServiceFromSimple(commands) ==
    /\ Cardinality(fromFactories \cup {serviceFromSimple(commands)}) <= MaxFromFactories
    /\ fromFactories' = fromFactories \cup {serviceFromSimple(commands)}
    /\ UNCHANGED <<calls, curried, svcVars, fromServices, errVars, objVars>>

\* factory(deps), factory returned by serviceFrom or serviceFromSimple
FromFactory(factory, deps) ==
    /\ factory \in fromFactories
    /\ LET service == IF factory.kind = "serviceFrom"
                      THEN serviceFromFactory(factory.commands, deps)
                      ELSE serviceFromSimpleFactory(factory.commands, deps)
       IN /\ Cardinality(fromServices \cup {service}) <= MaxServices
          /\ fromServices' = fromServices \cup {service}
    /\ UNCHANGED <<calls, curried, svcVars, fromFactories, errVars, objVars>>

\* the bound closure under a name of a service made by serviceFrom or
\* serviceFromSimple
BoundRun(service, name) ==
    IF service.kind = "serviceFrom"
    THEN service.entries[name].run
    ELSE service.entries[name]

\* service[name].run(input, options), service[name](input, options)
FromRun(service, name, input, options) ==
    /\ Cardinality(calls) < MaxServiceCalls
    /\ LET closure == BoundRun(service, name)
       IN calls' = calls \cup
            {NewCall(closure.ic, [from |-> service, name |-> name], closure.fn,
                     [input |-> input, options |-> options],
                     CurriedContext(closure, input, options))}
    /\ UNCHANGED <<curried, svcVars, fromVars, errVars, objVars>>

\* target.validateInput(x)
ValidateInput(target, x) ==
    /\ last' = [op |-> "validateInput", on |-> target, arg |-> x,
                result |-> validateInput(target, x)]
    /\ UNCHANGED <<calls, curried, serviceContract, factories, services,
                   fromVars, errVars, objVars>>

\* target.validateOutput(x)
ValidateOutput(target, x) ==
    /\ last' = [op |-> "validateOutput", on |-> target, arg |-> x,
                result |-> validateOutput(target, x)]
    /\ UNCHANGED <<calls, curried, serviceContract, factories, services,
                   fromVars, errVars, objVars>>

\* defineError(tag, defaultMessage)
DefineError(tag, defaultMessage) ==
    /\ Len(kinds) < MaxKinds
    /\ kinds' = Append(kinds, defineError(tag, defaultMessage))
    /\ UNCHANGED <<calls, curried, svcVars, fromVars, instances, objVars>>

\* new kinds[id](data, message, cause)
New(id, data, message, cause) ==
    /\ id \in DOMAIN kinds
    /\ LET e == Construct(id, kinds[id], data, message, cause)
       IN /\ Cardinality(instances \cup {e}) <= MaxInstances
          /\ instances' = instances \cup {e}
          /\ last' = [op |-> "new", kind |-> id, data |-> data, message |-> message,
                      cause |-> cause, result |-> e]
    /\ UNCHANGED <<calls, curried, serviceContract, factories, services,
                   fromVars, kinds, objVars>>

\* matchError(error, handlers)
MatchError(error, handlers, out) ==
    /\ last' = [op |-> "matchError", error |-> error, handlers |-> handlers,
                handlerDoes |-> out,
                invoked |-> matchError(error, handlers, out).invoked,
                result |-> matchError(error, handlers, out).result]
    /\ UNCHANGED <<calls, curried, serviceContract, factories, services,
                   fromVars, errVars, objVars>>

NextRun ==
    \/ \E ic \in ImplementedCommands, ctx \in Contexts : Run(ic, ctx)
    \/ \E c \in calls : \E out \in FnOutcomes(c.ic) : ImplSettles(c, out)

\* run called directly on implemented commands
SpecRun == Init /\ [][NextRun]_vars

NextCurry ==
    \/ \E ic \in ImplementedCommands, ctx \in Contexts : Run(ic, ctx)
    \/ \E ic \in ImplementedCommands, d \in Bundles : WithDependencies(ic, d)
    \/ \E k \in curried, i \in Inputs, o \in Options : CurriedCall(k, i, o)
    \/ \E c \in calls : \E out \in FnOutcomes(c.ic) : ImplSettles(c, out)

\* run called directly and through withDependencies closures
SpecCurry == Init /\ [][NextCurry]_vars

\* contexts and outcomes of the runs whose await is followed step by step
SettleContexts == {ctx \in Contexts : ctx.deps = "depsA" /\ ctx.options = Undefined}

SettleOutcomes(ic) ==
    {out \in FnOutcomes(ic) :
        \/ out.how = "return" /\ out.val \in {MockUser, ok(MockUser)}
        \/ out.how = "throw" /\
              out.val \in {NewError("UserNotFoundError", "42"), PlainError}}

\* every direct run that can be suspended at the await of wrappedImpl
Suspended ==
    {[NewCall(ic, DirectRun, ic.run, ctx, ctx)
         EXCEPT !.pc = "resuming", !.out = out] :
       ic \in {i \in ImplementedCommands : i.run = "wrappedImpl"},
       ctx \in SettleContexts,
       out \in SettleOutcomes(implementation(defineCommand("getUserCommand")))}

NextAwait ==
    \/ \E ic \in ImplementedCommands, ctx \in SettleContexts : Run(ic, ctx)
    \/ \E c \in calls : \E out \in SettleOutcomes(c.ic) : ImplPromiseSettles(c, out)
    \/ \E c \in calls : Resume(c)

\* direct runs, the await of wrappedImpl in two steps: the job queue runs
\* every continuation that has been queued
SpecAwait ==
    /\ Init
    /\ [][NextAwait]_vars
    /\ \A c \in Suspended : WF_vars(Resume(c))

NextSettle ==
    \/ \E ic \in ImplementedCommands, ctx \in SettleContexts : Run(ic, ctx)
    \/ \E ic \in ImplementedCommands, d \in Bundles : WithDependencies(ic, d)
    \/ \E k \in curried, i \in Inputs : CurriedCall(k, i, Undefined)
    \/ \E c \in calls : \E out \in SettleOutcomes(c.ic) : ImplPromiseSettles(c, out)
    \/ \E c \in calls : Resume(c)

\* runs in flight together, directly and through closures, the await of
\* wrappedImpl in two steps
SpecSettle == Init /\ [][NextSettle]_vars

NextService ==
    \/ \E names \in ServiceDefinitions : DefineService(names)
    \/ \E m \in ImplementationMaps : ServiceImplementation(m)
    \/ \E m \in factories, d \in Bundles : Factory(m, d)
    \/ \E s \in services : \E n \in DOMAIN s.entries :
          \E i \in Inputs, o \in Options : ServiceRun(s, n, i, o)
    \/ \E c \in calls : \E out \in FnOutcomes(c.ic) : ImplSettles(c, out)
    \/ \E c \in calls : Forget(c)

\* a service contract, its factories, their services and the services' runs
SpecService == Init /\ [][NextService]_vars

\* the records of the services serviceFrom's factories have made
FromRecords ==
    UNION {{s.entries[n] : n \in DOMAIN s.entries} :
              s \in {x \in fromServices : x.kind = "serviceFrom"}}

NextAttach ==
    \/ \E cmd \in CommandsUnderTest : DefineCommand(cmd)
    \/ \E method \in Methods, f \in Fns : Implement(method, f)
    \/ \E a \in attached, method \in Methods, f \in Fns : ImplementAgain(a, method, f)
    \/ \E a \in attached, ctx \in SettleContexts : RunAttached(a, ctx)
    \/ \E c \in calls : \E out \in SettleOutcomes(c.ic) : ImplSettles(c, out)

\* a command defined, implemented any number of times, and run
SpecAttach == Init /\ [][NextAttach]_vars

\* the one input, bundle and outcome of the lifecycle runs
LifeInput == Data([userId |-> "123"])
LifeContext == [input |-> LifeInput, deps |-> "depsA", options |-> Undefined]

\* the maps made of the implemented commands in existence, and the empty map
LifeMaps ==
    {ObjectLiteral([n \in {"getUser"} |-> a.ic]) : a \in attached}
        \cup {ObjectLiteral(<<>>)}

NextLifecycle ==
    \/ \E cmd \in CommandsUnderTest : DefineCommand(cmd)
    \/ \E method \in Methods : Implement(method, "getUserImpl")
    \/ \E a \in attached : RunAttached(a, LifeContext)
    \/ \E a \in attached : WithDependencies(a.ic, "depsA")
    \/ \E k \in curried : CurriedCall(k, LifeInput, Undefined)
    \/ DefineService(<<"getUser">>)
    \/ \E m \in LifeMaps : ServiceImplementation(m)
    \/ \E f \in factories : Factory(f, "depsA")
    \/ \E s \in services : ServiceRun(s, "getUser", LifeInput, Undefined)
    \/ \E m \in LifeMaps \ {ObjectLiteral(<<>>)} : ServiceFrom(m)
    \/ \E m \in LifeMaps \ {ObjectLiteral(<<>>)} : ServiceFromSimple(m)
    \/ \E f \in fromFactories : FromFactory(f, "depsA")
    \/ \E s \in fromServices : FromRun(s, "getUser", LifeInput, Undefined)
    \/ \E c \in calls : ImplSettles(c, Return(ok(MockUser)))
    \/ \E c \in calls : Forget(c)

\* one command through every operation of its lifecycle
SpecLifecycle == Init /\ [][NextLifecycle]_vars

NextLoose ==
    \/ \E names \in TestedDefinitions : DefineService(names)
    \/ \E m \in LooseMaps : ServiceImplementation(m)
    \/ \E f \in factories, d \in Bundles : Factory(f, d)

\* a service contract implemented with maps the type checker would refuse
SpecLoose == Init /\ [][NextLoose]_vars

NextFrom ==
    \/ \E m \in CommandMaps : ServiceFrom(m)
    \/ \E m \in CommandMaps : ServiceFromSimple(m)
    \/ \E f \in fromFactories, d \in Bundles : FromFactory(f, d)
    \/ \E s \in fromServices : \E n \in DOMAIN s.entries :
          \E i \in Inputs, o \in Options : FromRun(s, n, i, o)
    \/ \E c \in calls : \E out \in FnOutcomes(c.ic) : ImplSettles(c, out)
    \/ \E c \in calls : Forget(c)

\* serviceFrom and serviceFromSimple, their factories, services and runs
SpecFrom == Init /\ [][NextFrom]_vars

NextMeta ==
    \/ \E names \in TestedDefinitions : DefineService(names)
    \/ \E m \in CommandMaps : ServiceImplementation(m)
    \/ \E m \in factories, d \in Bundles : Factory(m, d)
    \/ \E m \in CommandMaps : ServiceFrom(m)
    \/ \E f \in fromFactories, d \in Bundles : FromFactory(f, d)

\* services built by a service contract and by serviceFrom, side by side
SpecMeta == Init /\ [][NextMeta]_vars

NextValidate ==
    \/ \E m \in CommandMaps : ServiceFrom(m)
    \/ \E f \in fromFactories, d \in Bundles : FromFactory(f, d)
    \/ \E ic \in ImplementedCommands, x \in Unknowns : ValidateInput(ic, x)
    \/ \E ic \in ImplementedCommands, x \in Unknowns : ValidateOutput(ic, x)
    \/ \E r \in FromRecords, x \in Unknowns : ValidateInput(r, x)
    \/ \E r \in FromRecords, x \in Unknowns : ValidateOutput(r, x)

\* validateInput and validateOutput of implemented commands and service records
SpecValidate == Init /\ [][NextValidate]_vars

NextErrors ==
    \/ \E tag \in Tags, dm \in DefaultMessages : DefineError(tag, dm)
    \/ \E id \in DOMAIN kinds, d \in ErrorData, m \in Messages, c \in Causes :
          New(id, d, m, c)
    \/ \E e \in instances, h \in HandlerMaps, out \in HandlerOutcomes :
          MatchError(e, h, out)

\* error classes, their instances and matchError over them
SpecErrors == Init /\ [][NextErrors]_vars

-----------------------------------------------------------------------------
(* Properties of run *)

Settled == {c \in calls : c.pc = "settled"}

AutoWrapped(c) == c.ic.path = "implementation"
Explicit(c) == c.ic.path = "unsafeImplementation"

IsContainer(v) == v.t \in {"ok", "err"}

\* e is an instance of one of the error kinds the command declares
InstanceOfDeclared(e, ic) == e.t = "TaggedError" /\ e.kind \in ic.errors

HasTagField(v) == "_tag" \in OwnKeys(v)

C2_DeclaredErrorBecomesFailure ==
    \A c \in Settled :
        (AutoWrapped(c) /\ c.out.how = "throw"
            /\ InstanceOfDeclared(c.out.val, c.ic)) =>
            /\ c.outcome.state = "resolved"
            /\ isErr(c.outcome.val)
            /\ c.outcome.val.error = c.out.val
            /\ c.outcome.val.error._tag = KindTag(c.out.val.kind)
            /\ c.outcome.val.error.data = c.out.val.data

C2_Witness ==
    \E c \in Settled :
        /\ AutoWrapped(c)
        /\ c.out = Throw(NewError("UserNotFoundError", "42"))
        /\ isErr(c.outcome.val)
        /\ c.outcome.val.error._tag = "USER_NOT_FOUND"
        /\ c.outcome.val.error.data = "42"

\* C3: on the auto-wrapped path, when the implementation raises a value with
\* no tag field (a plain Error, a string, null, undefined), run settles to no
\* success or failure outcome: it rejects with that same value.
C3_UntaggedRaisePropagates ==
    \A c \in Settled :
        (AutoWrapped(c) /\ c.out.how = "throw" /\ ~HasTagField(c.out.val)) =>
            c.outcome = Rejected(c.out.val)

C3_Witness ==
    /\ \E c \in Settled :
         AutoWrapped(c) /\ c.out = Throw(Null) /\ c.outcome = Rejected(Null)
    /\ \E c \in Settled :
         AutoWrapped(c) /\ c.out = Throw(PlainError)
            /\ c.outcome = Rejected(PlainError)

\* C4: a value the library places in the failure slot is always an instance of
\* a declared error kind, and a raised value of any other kind (another
\* TaggedError kind, an object that merely carries a tag) propagates as a fault.
C4_NeverMixesFaults ==
    \A c \in Settled :
        (AutoWrapped(c) /\ c.out.how = "throw") =>
            /\ (c.outcome.state = "resolved" /\ isErr(c.outcome.val))
                   => InstanceOfDeclared(c.outcome.val.error, c.ic)
            /\ ~InstanceOfDeclared(c.out.val, c.ic)
                   => c.outcome = Rejected(c.out.val)

\* C5: on the explicit path run is the implementation function itself: run
\* settles to exactly the container the function returned.
C5_ExplicitRunIsImpl ==
    \A c \in Settled :
        (Explicit(c) /\ c.out.how = "return" /\ IsContainer(c.out.val)) =>
            c.outcome = Resolved(c.out.val)

C5_Witness ==
    /\ \E c \in Settled :
         /\ Explicit(c)
         /\ c.out = Return(err(NewError("UserNotFoundError", "42")))
         /\ c.outcome = Resolved(err(NewError("UserNotFoundError", "42")))
    /\ \E c \in Settled :
         /\ Explicit(c)
         /\ c.out = Return(ok(MockUser))
         /\ c.outcome = Resolved(ok(MockUser))

-----------------------------------------------------------------------------
(* Properties of the two attachment paths and of withDependencies *)

ViaClosure(c) == c.via # DirectRun

\* the explicit implementation returns ok(v) where the auto-wrapped one returns
\* v, and err(e) where the auto-wrapped one raises the declared error e
Corresponds(autoOut, explicitOut, ic) ==
    \/ autoOut.how = "return" /\ explicitOut = Return(ok(autoOut.val))
    \/ /\ autoOut.how = "throw"
       /\ InstanceOfDeclared(autoOut.val, ic)
       /\ explicitOut = Return(err(autoOut.val))

\* same variant, and same value or same tag and data
SameOutcome(x, y) ==
    /\ x.state = "resolved" /\ y.state = "resolved"
    /\ x.val.t = y.val.t
    /\ isOk(x.val) => x.val.value = y.val.value
    /\ isErr(x.val) =>
          /\ x.val.error._tag = y.val.error._tag
          /\ x.val.error.data = y.val.error.data

\* C6: for the same command and the same context, an auto-wrapped
\* implementation that returns v or raises declared e and an explicit one that
\* returns ok(v) or err(e) settle to equal outcomes, whether run is called
\* directly or through a dependency-bound closure.
C6_PathsIndistinguishable ==
    \A a, b \in Settled :
        (/\ AutoWrapped(a) /\ Explicit(b)
         /\ a.ic.command = b.ic.command
         /\ a.ctx = b.ctx
         /\ Corresponds(a.out, b.out, a.ic)) => SameOutcome(a.outcome, b.outcome)

C6_Witness ==
    \E a, b \in Settled :
        /\ AutoWrapped(a) /\ Explicit(b)
        /\ ViaClosure(a) /\ ViaClosure(b)
        /\ a.ctx = b.ctx
        /\ a.out = Throw(NewError("UserNotFoundError", "42"))
        /\ b.out = Return(err(NewError("UserNotFoundError", "42")))
        /\ isErr(a.outcome.val) /\ isErr(b.outcome.val)

\* C7: withDependencies(d)(i, o) hands the implementation exactly
\* {input: i, deps: d, options: o}, an omitted options as undefined, and
\* settles as run({input: i, deps: d, options: o}) does.
C7_CurriedEqualsRun ==
    /\ \A c \in calls :
          ViaClosure(c) =>
              c.ctx = [input |-> c.args.input, deps |-> c.via.given,
                       options |-> c.args.options]
    /\ \A a, b \in Settled :
          (/\ ViaClosure(a) /\ ~ViaClosure(b)
           /\ a.ic = b.ic
           /\ b.args = [input |-> a.args.input, deps |-> a.via.given,
                         options |-> a.args.options]
           /\ a.out = b.out) => a.outcome = b.outcome

C7_Witness ==
    \E a, b \in Settled :
        /\ ViaClosure(a) /\ ~ViaClosure(b)
        /\ AutoWrapped(a) /\ a.ic = b.ic
        /\ a.args.options = Undefined
        /\ a.ctx.options = Undefined
        /\ b.args = a.ctx
        /\ a.out = Return(MockUser) /\ b.out = Return(MockUser)
        /\ a.outcome = Resolved(ok(MockUser))

\* C8: every closure returned by withDependencies keeps the bundle it was
\* created with, whatever withDependencies calls and invocations follow, and
\* every invocation of a closure passes that bundle to the implementation.
C8_ClosuresKeepTheirBundle ==
    /\ \A k \in curried : k.deps = k.given
    /\ \A c \in calls : ViaClosure(c) => c.ctx.deps = c.via.given

C8_Witness ==
    \E a, b \in calls :
        /\ ViaClosure(a) /\ ViaClosure(b)
        /\ a.ic = b.ic
        /\ a.via \in curried /\ b.via \in curried
        /\ a.via.given = "depsA" /\ b.via.given = "depsB"
        /\ a.ctx.deps = "depsA" /\ b.ctx.deps = "depsB"
        /\ a.pc = "settled"

-----------------------------------------------------------------------------
(* Properties of service contracts *)

DeclaredNames == {serviceContract.names[i] : i \in DOMAIN serviceContract.names}

\* the keys of an implementations map: the names it gives an implementation for
KeysOf(implementations) == DOMAIN implementations.entries

Complete(implementations) == DeclaredNames \subseteq KeysOf(implementations)

ViaService(c) == "service" \in DOMAIN c.via

\* C9: serviceContract.implementation(map) raises an error whose message names
\* a missing command whenever a declared name is not a key of map, and returns
\* a factory whenever the keys of map include every declared name, extra keys
\* or not.
C9_CompletenessChecked ==
    last.op = "implementation" =>
        /\ ~Complete(last.implementations) =>
              /\ last.threw
              /\ \E n \in DeclaredNames \ KeysOf(last.implementations) :
                    last.error.message = "Missing implementation for contract: " \o n
        /\ Complete(last.implementations) =>
              /\ ~last.threw
              /\ last.implementations \in factories

\* C10: when a declared name is missing from the map, implementation(map)
\* itself raises: no factory is returned for such a map, no bundle is bound to
\* it and no run of it is invoked.
C10_CompletenessCheckedEagerly ==
    /\ (last.op = "implementation" /\ ~Complete(last.implementations)) => last.threw
    /\ \A f \in factories : Complete(f)
    /\ \A s \in services : Complete(s.implementations)
    /\ \A c \in calls : ViaService(c) => Complete(c.via.service.implementations)

\* the implemented command a call through a service record was made on
Implemented(c) == c.via.service.implementations.entries[c.via.name]

\* C11: a Service has one record for every key of the map, extra keys
\* included, and no other; the run of the record under a name is
\* map[name].withDependencies(d): run(i, o) hands the implementation
\* {input: i, deps: d, options: o} and settles as map[name].run does.
C11_FactoryBuildsService ==
    /\ \A s \in services :
          /\ DOMAIN s.entries = KeysOf(s.implementations)
          /\ \A n \in KeysOf(s.implementations) :
                /\ s.entries[n].run.ic = s.implementations.entries[n]
                /\ s.entries[n].run.given = s.deps
    /\ \A c \in calls :
          ViaService(c) =>
              /\ c.ic = Implemented(c)
              /\ c.ctx = [input |-> c.args.input, deps |-> c.via.service.deps,
                           options |-> c.args.options]
              /\ c.pc = "settled" => c.outcome = Settle(Implemented(c).run, c.out)

C11_Witness ==
    \E c \in Settled :
        /\ ViaService(c)
        /\ c.via.service \in services
        /\ c.via.name \notin DeclaredNames
        /\ DeclaredNames \subseteq DOMAIN c.via.service.entries
        /\ c.ctx.deps = "depsB"
        /\ c.out = Throw(NewError("ValidationError", "42"))
        /\ c.outcome = Resolved(err(NewError("ValidationError", "42")))

\* C12: every factory call produces an independent Service: the runs of an
\* instance pass the bundle of the factory call that made it, and no factory
\* call or run changes an instance made earlier.
C12_InstancesIndependent ==
    /\ [](\A s \in services : \A n \in DOMAIN s.entries :
              s.entries[n].run.deps = s.deps)
    /\ [](\A c \in calls : ViaService(c) => c.ctx.deps = c.via.service.deps)
    /\ [][services \subseteq services']_vars

C12_Witness ==
    \E a, b \in services : \E c \in Settled :
        /\ a.implementations = b.implementations
        /\ a.deps = "depsA" /\ b.deps = "depsB"
        /\ ViaService(c) /\ c.via.service = a
        /\ c.ctx.deps = "depsA"
        /\ \A n \in DOMAIN b.entries : b.entries[n].run.deps = "depsB"

-----------------------------------------------------------------------------
(* Properties of metadata and validation *)

\* the schemas and errors of an implemented command or service record are
\* those defineCommand was given for the command
KeepsMetadata(record, cmd) ==
    /\ record.schemas = CommandSchemas(cmd)
    /\ record.errors = CommandErrors(cmd)

\* C13: the schemas and the errors list on an implemented command of either
\* attachment method, and on every service record built from it by serviceFrom
\* or by a service-contract factory, are those supplied at definition.
C13_MetadataInvariant ==
    /\ \A m \in factories \cup {f.commands : f \in fromFactories} :
          \A n \in KeysOf(m) : KeepsMetadata(m.entries[n], m.entries[n].command)
    /\ \A s \in services : \A n \in DOMAIN s.entries :
          KeepsMetadata(s.entries[n], s.implementations.entries[n].command)
    /\ \A s \in fromServices : \A n \in DOMAIN s.entries :
          KeepsMetadata(s.entries[n], s.commands.entries[n].command)

C13_Witness ==
    \E a \in services, b \in fromServices :
        /\ DOMAIN a.entries = {"getUser", "createUser"}
        /\ DOMAIN b.entries = {"getUser", "createUser"}
        /\ a.implementations.entries["getUser"].path = "implementation"
        /\ b.commands.entries["getUser"].path = "unsafeImplementation"
        /\ a.entries["getUser"].errors = {"UserNotFoundError"}
        /\ b.entries["getUser"].errors = {"UserNotFoundError"}
        /\ a.entries["createUser"].schemas.input = <<"createUserCommand", "input">>
        /\ b.entries["createUser"].schemas.output = <<"createUserCommand", "output">>

\* C14: the input handed to the implementation function by run or by a bound
\* run has passed the command's input validator.
C14_ValidatedInputOnly ==
    \A c \in calls : Parse(c.ic.schemas.input, c.ctx.input).how = "return"

\* C15: validateInput and validateOutput, on an implemented command and on a
\* service record, give what the validator supplied at definition gives: the
\* parsed value for a conforming x, the validator's failure raised for any
\* other x, and never a success/failure container.
C15_ValidationDelegates ==
    last.op \in {"validateInput", "validateOutput"} =>
        LET schema == IF last.op = "validateInput"
                      THEN last.on.schemas.input
                      ELSE last.on.schemas.output
        IN /\ last.result = Parse(schema, last.arg)
           /\ last.result.how = "return" =>
                 /\ last.result.val.t = "data"
                 /\ \A k \in SchemaKeys(schema) :
                       last.result.val.fields[k] = last.arg.fields[k]
           /\ last.result.how = "throw" => last.result.val = ZodError(schema)
           /\ (schema = <<"getUserCommand", "input">>
                  /\ last.arg = Data([invalid |-> "data"]))
                 => last.result.how = "throw"
           /\ (schema = <<"getUserCommand", "input">>
                  /\ last.arg = Data([userId |-> "42"]))
                 => last.result = [how |-> "return", val |-> Data([userId |-> "42"])]

C15_Witness ==
    /\ last.op = "validateInput"
    /\ last.on \in FromRecords
    /\ last.on.schemas.input = <<"getUserCommand", "input">>
    /\ last.arg = Data([invalid |-> "data"])
    /\ last.result.how = "throw"

-----------------------------------------------------------------------------
(* Properties of serviceFrom and serviceFromSimple *)

ViaFrom(c) == "from" \in DOMAIN c.via

\* C20: for every map m, bundle d and name n of m, the bound run serviceFrom
\* and serviceFromSimple give under n is m[n].withDependencies(d), as is the
\* one of the service-contract factory; serviceFrom's records have the members
\* the service-contract factory gives them; every call through them hands the
\* implementation {input: i, deps: d, options: o} and settles as the closure
\* of m[n] does.
C20_ServiceBuildersAgree ==
    /\ \A s \in fromServices :
          /\ DOMAIN s.entries = KeysOf(s.commands)
          /\ \A n \in KeysOf(s.commands) :
                /\ BoundRun(s, n).ic = s.commands.entries[n]
                /\ BoundRun(s, n).deps = s.deps
                /\ BoundRun(s, n).fn = s.commands.entries[n].withDependencies
                /\ BoundRun(s, n) = BuildService(s.commands, s.deps).entries[n].run
          /\ s.kind = "serviceFrom" =>
                s.entries = BuildService(s.commands, s.deps).entries
    /\ \A a, b \in fromServices :
          (a.commands = b.commands /\ a.deps = b.deps) =>
              \A n \in KeysOf(a.commands) : BoundRun(a, n) = BoundRun(b, n)
    /\ \A c \in calls :
          ViaFrom(c) =>
              LET ic == c.via.from.commands.entries[c.via.name]
              IN /\ c.ic = ic
                 /\ c.ctx = [input |-> c.args.input, deps |-> c.via.from.deps,
                              options |-> c.args.options]
                 /\ c.pc = "settled" =>
                       c.outcome = Settle(ic.withDependencies, c.out)

C20_Witness ==
    \E a, b \in fromServices : \E c \in Settled :
        /\ a.kind = "serviceFrom" /\ b.kind = "serviceFromSimple"
        /\ a.commands = b.commands /\ a.deps = "depsB" /\ b.deps = "depsB"
        /\ ViaFrom(c) /\ c.via.from = b
        /\ c.ctx.deps = "depsB"
        /\ c.ic.path = "implementation"
        /\ c.out = Return(MockUser)
        /\ c.outcome = Resolved(ok(MockUser))

-----------------------------------------------------------------------------
(* Properties of error kinds and matchError *)

\* the handler map defines a handler under the tag
Handles(handlers, tag) == tag \in DOMAIN handlers.entries

\* C16: when the handler map has a handler for the error's tag, matchError
\* invokes that handler once with the error, invokes no other, and gives back
\* what the handler gave: its result as-is.
C16_MatchDispatches ==
    (last.op = "matchError" /\ Handles(last.handlers, last.error._tag)) =>
        /\ last.invoked = <<[handler |-> last.handlers.entries[last.error._tag],
                             arg |-> last.error]>>
        /\ last.result = last.handlerDoes

C16_Witness ==
    /\ last.op = "matchError"
    /\ last.error._tag = "USER_NOT_FOUND"
    /\ DOMAIN last.handlers.entries = {"USER_NOT_FOUND", "toString"}
    /\ last.invoked = <<[handler |-> Function("on USER_NOT_FOUND"), arg |-> last.error]>>
    /\ last.handlerDoes = [how |-> "return", val |-> Undefined]
    /\ last.result = [how |-> "return", val |-> Undefined]

\* C17: when the handler map defines no handler under the error's tag,
\* matchError raises an error naming the tag: it invokes nothing and returns
\* no value.
C17_UnmatchedTagRaises ==
    (last.op = "matchError" /\ ~Handles(last.handlers, last.error._tag)) =>
        /\ last.invoked = <<>>
        /\ last.result.how = "throw"
        /\ last.result.val.message = "No handler for error tag: " \o last.error._tag

\* C18: an instance constructed with (data, message, cause) carries the tag of
\* its kind, the data and the cause supplied, and as message the supplied one
\* when one is supplied, else the kind's default message when one was given,
\* else "Error: <tag>".
C18_ErrorConstruction ==
    last.op = "new" =>
        LET class == kinds[last.kind]
        IN /\ last.result._tag = class.tag
           /\ last.result.data = last.data
           /\ last.result.cause = last.cause
           /\ last.result.message =
                 IF last.message # Undefined THEN last.message
                 ELSE IF class.defaultMessage # Undefined THEN class.defaultMessage
                 ELSE Str("Error: " \o class.tag)

\* C19: every instance carries the tag its kind was defined with, kinds and
\* instances never change once made, and instances of different kinds never
\* have equal tags.
C19_TagIdentity ==
    /\ [](\A e \in instances : e._tag = kinds[e.kind].tag)
    /\ [](\A a, b \in instances : a.kind # b.kind => a._tag # b._tag)
    /\ [][/\ instances \subseteq instances'
          /\ \A id \in DOMAIN kinds : id \in DOMAIN kinds' /\ kinds'[id] = kinds[id]]_vars

-----------------------------------------------------------------------------
(* Properties of the explicit path, of settling and of calls in flight *)

\* C23: on the explicit path whatever the implementation raises, tagged or
\* not, rejects run with that very value: run resolves to no container.
C23_ExplicitRaisePropagates ==
    \A c \in Settled :
        (Explicit(c) /\ c.out.how = "throw") => c.outcome = Rejected(c.out.val)

C23_Witness ==
    /\ \E c \in Settled :
         /\ Explicit(c)
         /\ c.out = Throw(NewError("UserNotFoundError", "42"))
         /\ c.outcome = Rejected(NewError("UserNotFoundError", "42"))
    /\ \E c \in Settled :
         /\ Explicit(c)
         /\ c.out = Throw(PlainError)
         /\ c.outcome = Rejected(PlainError)

Success(c) == c.outcome.state = "resolved" /\ isOk(c.outcome.val)
Failure(c) == c.outcome.state = "resolved" /\ isErr(c.outcome.val)
Fault(c) == c.outcome.state = "rejected"

\* the call c once its continuation has run
Resumed(c) == [c EXCEPT !.pc = "settled", !.outcome = Settle(c.fn, c.out)]

\* C24: a run is pending until its implementation has settled; once it has,
\* run settles, to exactly one of a success container, a failure container
\* or a rejection, and a settled run never changes.
C24_SettlesOnceOneWay ==
    /\ [](\A c \in calls :
            /\ c.pc \in {"awaiting", "resuming"} <=> c.outcome = Pending
            /\ c.pc = "awaiting" <=> c.out = NoOutcome
            /\ c.pc = "settled" =>
                  \/ Success(c) /\ ~Failure(c) /\ ~Fault(c)
                  \/ Failure(c) /\ ~Success(c) /\ ~Fault(c)
                  \/ Fault(c) /\ ~Success(c) /\ ~Failure(c))
    /\ [][\A c \in calls : c.pc = "settled" => c \in calls']_vars
    /\ \A c \in Suspended : (c \in calls) ~> (Resumed(c) \in calls)

C24_Witness ==
    /\ \E c \in Settled : AutoWrapped(c) /\ Success(c)
    /\ \E c \in calls :
         /\ AutoWrapped(c) /\ c.pc = "resuming"
         /\ c.out = Throw(PlainError)

\* the context the implementation of call c is owed: its own arguments, and
\* for a closure the bundle it was created with
OwnContext(c) ==
    IF ViaClosure(c)
    THEN [input |-> c.args.input, deps |-> c.via.given, options |-> c.args.options]
    ELSE c.args

\* C25: calls in flight together do not interfere: each call hands its
\* implementation its own input, options and bundle, settles by what its own
\* implementation did, and a step of one call leaves every other call as it
\* was, in whatever order the implementations settle.
C25_CallsIndependent ==
    /\ [](\A c \in calls :
            /\ c.ctx = OwnContext(c)
            /\ c.pc = "settled" => c.outcome = Settle(c.fn, c.out))
    /\ [][\A a, b \in calls :
            (a # b /\ a \notin calls') => b \in calls']_vars

C25_Witness ==
    \E a, b \in Settled :
        /\ a.ic = b.ic /\ AutoWrapped(a)
        /\ ViaClosure(a) /\ ViaClosure(b)
        /\ a.via.given = "depsA" /\ b.via.given = "depsB"
        /\ a.args.input # b.args.input
        /\ Success(a) /\ Fault(b)

-----------------------------------------------------------------------------
(* Properties of services built from implemented commands *)

\* C27: through a service built by serviceContract.implementation, a command
\* attached with implementation(fn) whose fn returns err(e), e declared,
\* resolves to a failure with the tag and data of e, and one whose fn returns
\* ok(v) resolves to a success whose value is v.
C27_ServiceKeepsReturnedContainer ==
    \A c \in Settled :
        (/\ ViaService(c) /\ AutoWrapped(c)
         /\ c.out.how = "return" /\ IsContainer(c.out.val)) =>
            /\ c.outcome.state = "resolved"
            /\ isErr(c.out.val) =>
                  /\ isErr(c.outcome.val)
                  /\ c.outcome.val.error._tag = c.out.val.error._tag
                  /\ c.outcome.val.error.data = c.out.val.error.data
            /\ isOk(c.out.val) =>
                  /\ isOk(c.outcome.val)
                  /\ c.outcome.val.value = c.out.val.value

\* C30: a call of serviceContract.implementation that raises for a missing
\* name changes neither the service contract, nor the factories returned
\* earlier, nor the services built from them; afterwards a call with a map
\* that holds every declared name returns a factory.
C30_FailedCheckChangesNothing ==
    /\ [][(last'.op = "implementation" /\ last'.threw) =>
            /\ serviceContract' = serviceContract
            /\ factories' = factories
            /\ services' = services]_vars
    /\ [][\A f \in factories, d \in Bundles :
            (last.op = "implementation" /\ last.threw /\ Factory(f, d)) =>
                (~last'.threw /\ BuildService(f, d) \in services')]_vars
    /\ [][\A m \in ImplementationMaps :
            (ServiceImplementation(m) /\ Complete(m)) =>
                (~last'.threw /\ m \in factories')]_vars

C30_Witness ==
    /\ last.op = "implementation" /\ last.threw
    /\ last.error = MissingImplementation("createUser")
    /\ \E f \in factories : f # last.implementations /\ Complete(f)
    /\ \E s \in services : s.implementations \in factories

\* C22: the bundles stay as the callers made them, every bound run of a
\* service holds the bundle the factory was called with, the same object for
\* every name, and every call through the service hands that bundle to the
\* implementation.
C22_BundleSharedUntouched ==
    /\ bundles = [b \in Bundles |-> BundleOf(b)]
    /\ \A s \in services :
          /\ s.deps \in DOMAIN bundles
          /\ \A n \in DOMAIN s.entries : s.entries[n].run.deps = s.deps
    /\ \A c \in calls :
          ViaService(c) =>
              /\ c.via.service \in services
              /\ c.ctx.deps = c.via.service.deps

C22_Witness ==
    \E s \in services : \E c \in Settled :
        /\ s.deps = "depsB"
        /\ DOMAIN s.entries = {"getUser", "createUser"}
        /\ s.entries["getUser"].run.deps = "depsB"
        /\ s.entries["createUser"].run.deps = "depsB"
        /\ ViaService(c) /\ c.via.service = s
        /\ c.ctx.deps = "depsB"
        /\ bundles["depsB"] = BundleOf("depsB")

\* C28: a factory returned by serviceContract.implementation(map) never
\* raises: factory(d) returns a Service for every bundle d, whatever the values
\* map holds under the declared names.
C28_FactoryNeverFails ==
    last.op = "factory" => ~last.threw

-----------------------------------------------------------------------------
(* Properties of the command lifecycle *)

ViaAttached(c) == "attached" \in DOMAIN c.via

\* C21: once defined, the command keeps its schemas, errors and attachment
\* methods whatever is attached; every attachment yields an object of its own
\* whose run calls the function given to that attachment, and no later
\* attachment changes an object returned earlier.
C21_AttachingLeavesContract ==
    /\ [][command.defined => command' = command]_vars
    /\ [](command.defined =>
            /\ command.contract = defineCommand(command.contract.command)
            /\ {"implementation", "unsafeImplementation"} \subseteq command.members)
    /\ [][attached \subseteq attached']_vars
    /\ [](\A a \in attached :
            /\ a.impl = a.given
            /\ a.ic.schemas = command.contract.schemas
            /\ a.ic.errors = command.contract.errors)
    /\ [](\A c \in calls :
            ViaAttached(c) => c.via.invoked = c.via.attached.given)

C21_Witness ==
    \E a, b \in attached : \E c \in Settled :
        /\ a.ic.path = "implementation" /\ b.ic.path = "unsafeImplementation"
        /\ a.through = "command" /\ b.through = "command"
        /\ a.given = "getUserImpl" /\ b.given = "otherImpl"
        /\ a.impl = "getUserImpl" /\ b.impl = "otherImpl"
        /\ ViaAttached(c) /\ c.via.attached = a
        /\ c.via.invoked = "getUserImpl"
        /\ command.contract = defineCommand("getUserCommand")

\* C26: an implemented command has no member that attaches an implementation
\* or gives back the command, so none is made from one; the record a service
\* holds for a command has the six members of the factory's literal, none of
\* which re-binds its run or is the unbound run.
C26_LifecycleForwardOnly ==
    /\ \A a \in attached :
          /\ a.members \cap {"implementation", "unsafeImplementation"} = {}
          /\ a.through = "command"
    /\ RecordMembers \cap {"withDependencies", "implementation",
                           "unsafeImplementation"} = {}
    /\ \A s \in services : \A n \in DOMAIN s.entries :
          "withDependencies" \notin DOMAIN s.entries[n]

\* the invocations of implementation functions a step makes: the calls it
\* leaves awaiting that were not there before
Invoked == {c \in calls' : c.pc = "awaiting"} \ calls

\* C29: a step that defines a command, attaches an implementation, binds
\* dependencies, defines or implements a service contract, makes a serviceFrom
\* or serviceFromSimple factory or calls a factory invokes no implementation
\* function; a call of run or of a bound run invokes its own once, and never
\* more than one.
C29_InvokedOnlyByRun ==
    /\ [][(\/ command' # command \/ attached' # attached
            \/ curried' # curried \/ serviceContract' # serviceContract
            \/ factories' # factories \/ services' # services
            \/ last' # last \/ fromFactories' # fromFactories
            \/ fromServices' # fromServices) =>
               (calls' = calls /\ Invoked = {})]_vars
    /\ [][Cardinality(Invoked) <= 1]_vars
    /\ [][\A a \in attached :
            RunAttached(a, LifeContext) =>
                \E c \in calls' :
                    /\ c.pc = "awaiting" /\ c.via = [attached |-> a, invoked |-> a.impl]
                    /\ Invoked \subseteq {c}]_vars
    /\ [][\A k \in curried :
            CurriedCall(k, LifeInput, Undefined) =>
                \E c \in calls' :
                    c.pc = "awaiting" /\ c.via = k /\ Invoked \subseteq {c}]_vars
    /\ [][\A s \in services :
            ServiceRun(s, "getUser", LifeInput, Undefined) =>
                \E c \in calls' :
                    /\ c.pc = "awaiting"
                    /\ c.via = [service |-> s, name |-> "getUser"]
                    /\ Invoked = {c}]_vars
    /\ [][\A s \in fromServices :
            FromRun(s, "getUser", LifeInput, Undefined) =>
                \E c \in calls' :
                    /\ c.pc = "awaiting"
                    /\ c.via = [from |-> s, name |-> "getUser"]
                    /\ Invoked = {c}]_vars

C29_Witness ==
    /\ command.defined /\ attached # {} /\ curried # {}
    /\ serviceContract.defined /\ factories # {} /\ services # {}
    /\ \E f, g \in fromFactories :
          f.kind = "serviceFrom" /\ g.kind = "serviceFromSimple"
    /\ \E s \in fromServices : \E c \in calls :
          /\ calls = {c}
          /\ c.pc = "awaiting"
          /\ ViaFrom(c) /\ c.via.from = s

====
